---- MODULE Spec2Model ----
(***************************************************************************)
(* Model of sasmodels/models/micromagnetic_FF_3D.c: the micromagnetic      *)
(* core-shell SANS kernel (radius_effective, reduced_field, DMI_length,    *)
(* the four fqM* response functions, Iqxy and Iq).                         *)
(*                                                                         *)
(* A C double is modelled as an exact rational <<n, d>> in lowest terms    *)
(* with d > 0; +0.0 is <<0,1>> and -0.0 is <<0,-1>>; the non-finite        *)
(* doubles are <<0,0>> (NaN), <<1,0>> (+inf) and <<-1,0>> (-inf).          *)
(* The value of a call that ends without a return statement is not         *)
(* computed: it is a record of the sign and the class of a double.         *)
(* Rounding is not modelled.  M_PI is the rational 355/113.                *)
(***************************************************************************)
EXTENDS Integers, Sequences, FiniteSets, TLC

VARIABLES fn, p, pc, j, i, xs, qrot, weights, mz, nuc, sld, form,
          total_F2, total_F1D, result, calls, iters

vars == <<fn, p, pc, j, i, xs, qrot, weights, mz, nuc, sld, form,
          total_F2, total_F1D, result, calls, iters>>

(***************************************************************************)
(* Double arithmetic                                                       *)
(***************************************************************************)
Abs(n) == IF n < 0 THEN -n ELSE n

RECURSIVE Gcd(_, _)
Gcd(a, b) == IF b = 0 THEN a ELSE Gcd(b, a % b)

NaN == <<0, 0>>
PInf == <<1, 0>>
NInf == <<-1, 0>>

Sign(n) == IF n > 0 THEN 1 ELSE IF n < 0 THEN -1 ELSE 0

\* n/d in lowest terms, d # 0
Rat(n, d) ==
  LET g == Gcd(Abs(n), Abs(d))
      s == IF d < 0 THEN -1 ELSE 1
  IN <<(s * n) \div g, (s * d) \div g>>

R(n) == <<n, 1>>
Zero == <<0, 1>>
NegZero == <<0, -1>>
One == <<1, 1>>

IsNaN(a) == a = NaN
IsFinite(a) == a[2] # 0
IsZero(a) == a[2] # 0 /\ a[1] = 0

\* the sign bit of a double that is not NaN
SignBit(a) == IF a[1] = 0 THEN a[2] < 0 ELSE a[1] < 0

\* the zero with the given sign bit
SignedZero(neg) == IF neg THEN NegZero ELSE Zero

\* two doubles a property takes for the same outcome: both NaN, both a zero
\* (of either sign), or the same number or infinity
SameResult(a, b) == (IsZero(a) /\ IsZero(b)) \/ a = b

\* a + b
RAdd(a, b) ==
  IF IsNaN(a) \/ IsNaN(b) THEN NaN
  ELSE IF ~IsFinite(a) /\ ~IsFinite(b) THEN (IF a = b THEN a ELSE NaN)
  ELSE IF ~IsFinite(a) THEN a
  ELSE IF ~IsFinite(b) THEN b
  ELSE IF IsZero(a) /\ IsZero(b) THEN SignedZero(SignBit(a) /\ SignBit(b))
  ELSE IF IsZero(a) THEN b
  ELSE IF IsZero(b) THEN a
  ELSE LET g == Gcd(a[2], b[2])
       IN Rat(a[1] * (b[2] \div g) + b[1] * (a[2] \div g), (a[2] \div g) * b[2])

\* -a
RNeg(a) == IF a[1] = 0 THEN <<0, -a[2]>> ELSE <<-a[1], a[2]>>

\* a - b
RSub(a, b) == RAdd(a, RNeg(b))

\* a * b
RMul(a, b) ==
  IF IsNaN(a) \/ IsNaN(b) THEN NaN
  ELSE IF ~IsFinite(a) \/ ~IsFinite(b)
    THEN (IF IsZero(a) \/ IsZero(b) THEN NaN
          ELSE IF SignBit(a) # SignBit(b) THEN NInf ELSE PInf)
  ELSE IF IsZero(a) \/ IsZero(b) THEN SignedZero(SignBit(a) # SignBit(b))
  ELSE LET g1 == Gcd(Abs(a[1]), b[2])
           g2 == Gcd(Abs(b[1]), a[2])
       IN <<(a[1] \div g1) * (b[1] \div g2), (a[2] \div g2) * (b[2] \div g1)>>

\* 1 / a
RInv(a) ==
  IF IsNaN(a) THEN NaN
  ELSE IF ~IsFinite(a) THEN SignedZero(SignBit(a))
  ELSE IF IsZero(a) THEN (IF SignBit(a) THEN NInf ELSE PInf)
  ELSE IF a[1] < 0 THEN <<-a[2], -a[1]>>
  ELSE <<a[2], a[1]>>

\* a / b
RDiv(a, b) ==
  IF IsNaN(a) \/ IsNaN(b) THEN NaN
  ELSE IF IsZero(a) /\ IsZero(b) THEN NaN
  ELSE IF ~IsFinite(a) /\ ~IsFinite(b) THEN NaN
  ELSE RMul(a, RInv(b))

\* n1/d1 < n2/d2 for n1, n2 >= 0 and d1, d2 > 0, by comparing the integer
\* parts and then the reciprocals of the fractional parts (no products)
RECURSIVE LessPos(_, _, _, _)
LessPos(n1, d1, n2, d2) ==
  IF n1 \div d1 # n2 \div d2 THEN n1 \div d1 < n2 \div d2
  ELSE IF n2 % d2 = 0 THEN FALSE
  ELSE IF n1 % d1 = 0 THEN TRUE
  ELSE LessPos(d2, n2 % d2, d1, n1 % d1)

\* a < b (false when either is NaN)
RLess(a, b) ==
  IF IsNaN(a) \/ IsNaN(b) THEN FALSE
  ELSE IF IsZero(a) /\ IsZero(b) THEN FALSE
  ELSE IF IsZero(a) THEN ~SignBit(b)
  ELSE IF IsZero(b) THEN SignBit(a)
  ELSE IF ~IsFinite(a) /\ ~IsFinite(b) THEN a[1] < b[1]
  ELSE IF ~IsFinite(a) THEN a[1] < 0
  ELSE IF ~IsFinite(b) THEN b[1] > 0
  ELSE IF a[1] < 0 /\ b[1] >= 0 THEN TRUE
  ELSE IF a[1] >= 0 /\ b[1] < 0 THEN FALSE
  ELSE IF a[1] < 0 THEN LessPos(-b[1], b[2], -a[1], a[2])
  ELSE LessPos(a[1], a[2], b[1], b[2])

\* a > b
RGreater(a, b) == RLess(b, a)

\* a <= b
RLeq(a, b) == ~IsNaN(a) /\ ~IsNaN(b) /\ ~RLess(b, a)

\* a > b ? a : b
RMax(a, b) == IF RGreater(a, b) THEN a ELSE b

\* kernel macro square(x)
square(x) == RMul(x, x)

\* integer square root of a perfect square n >= 0
ISqrt(n) == CHOOSE r \in 0..n : r * r = n

\* sqrt of a rational whose numerator and denominator are perfect squares
RSqrt(a) == IF IsZero(a) THEN a ELSE <<ISqrt(a[1]), ISqrt(a[2])>>

\* kernel macro MAG_VEC(a, b, c) = sqrt(a*a + b*b + c*c)
MAG_VEC(a, b, c) == RSqrt(RAdd(RAdd(RMul(a, a), RMul(b, b)), RMul(c, c)))

M_PI == <<355, 113>>

(***************************************************************************)
(* radius_effective                                                        *)
(***************************************************************************)
\* the switch with "default:" moved onto the core-radius statement
radius_effective_DefaultCore(mode, radius, thickness) ==
  CASE mode = 1 -> RAdd(radius, thickness)
    [] OTHER -> radius

\* the switch: "default:" and "case 1:" label the same statement
radius_effective(mode, radius, thickness) ==
  CASE mode = 1 -> RAdd(radius, thickness)
    [] mode = 2 -> radius
    [] OTHER -> RAdd(radius, thickness)

(***************************************************************************)
(* reduced_field and DMI_length                                            *)
(***************************************************************************)
\* 2.0 * A * 4.0 * M_PI / Ms * q * q * 10.0, evaluated left to right
ExchangeTerm(q, Ms, A) ==
  RMul(RMul(RMul(RDiv(RMul(RMul(RMul(R(2), A), R(4)), M_PI), Ms), q), q), R(10))

HiFloor == <<1, 1000000>>

\* reduced_field without the floor on Hi
reduced_field_NoFloor(q, Ms, Hi, A) ==
  RDiv(Ms, RAdd(Hi, ExchangeTerm(q, Ms, A)))

\* reduced_field whose else branch adds 1.0 instead of 1.0e-6
reduced_field_FloorOne(q, Ms, Hi, A) ==
  IF RGreater(Hi, HiFloor)
    THEN RDiv(Ms, RAdd(Hi, ExchangeTerm(q, Ms, A)))
    ELSE RDiv(Ms, RAdd(One, ExchangeTerm(q, Ms, A)))

reduced_field(q, Ms, Hi, A) ==
  IF RGreater(Hi, HiFloor)
    THEN RDiv(Ms, RAdd(Hi, ExchangeTerm(q, Ms, A)))
    ELSE RDiv(Ms, RAdd(HiFloor, ExchangeTerm(q, Ms, A)))

\* DMI_length with the DMI constant fixed at 1/2840 whatever D is passed
DMI_length_FixedD(Ms, D, qval) ==
  RMul(RDiv(RDiv(RMul(RMul(RMul(R(2), <<1, 2840>>), R(4)), M_PI), Ms), Ms),
       qval)

DMI_length(Ms, D, qval) ==
  RMul(RDiv(RDiv(RMul(RMul(RMul(R(2), D), R(4)), M_PI), Ms), Ms), qval)

(***************************************************************************)
(* Magnetization response (Michels et al. PRB 94, 054424)                  *)
(***************************************************************************)
\* 1.0 + rf*(x*x+y*y)/q/q - square(rf*DMI_length(Ms, D, z)), the denominator
\* written out in each of the four functions
ResponseDenominator(x, y, z, q, Hi, Ms, A, D) ==
  LET rf == reduced_field(q, Ms, Hi, A)
  IN RSub(RAdd(One, RDiv(RDiv(RMul(rf, RAdd(RMul(x, x), RMul(y, y))), q), q)),
          square(RMul(rf, DMI_length(Ms, D, z))))

\* the source text of fqMxreal with the factor of the Ms*Mz term squared in rf
fqMxreal_SquaredSusceptibility(x, y, z, Mz, Hkx, Hky, Hi, Ms, A, D) ==
  LET q == MAG_VEC(x, y, z)
      rf == reduced_field(q, Ms, Hi, A)
      t1 == RMul(Hkx, RAdd(One, RDiv(RDiv(RMul(RMul(rf, y), y), q), q)))
      t2 == RMul(RDiv(RDiv(RMul(RMul(RMul(Ms, Mz), x), z), q), q),
                 RAdd(One, RMul(RMul(RMul(rf, rf), DMI_length(Ms, D, q)),
                                DMI_length(Ms, D, q))))
      t3 == RDiv(RDiv(RMul(RMul(RMul(Hky, rf), x), y), q), q)
  IN RDiv(RMul(rf, RSub(RSub(t1, t2), t3)),
          ResponseDenominator(x, y, z, q, Hi, Ms, A, D))

fqMxreal(x, y, z, Mz, Hkx, Hky, Hi, Ms, A, D) ==
  LET q == MAG_VEC(x, y, z)
      rf == reduced_field(q, Ms, Hi, A)
      t1 == RMul(Hkx, RAdd(One, RDiv(RDiv(RMul(RMul(rf, y), y), q), q)))
      t2 == RMul(RDiv(RDiv(RMul(RMul(RMul(Ms, Mz), x), z), q), q),
                 RAdd(One, RMul(RMul(rf, DMI_length(Ms, D, q)),
                                DMI_length(Ms, D, q))))
      t3 == RDiv(RDiv(RMul(RMul(RMul(Hky, rf), x), y), q), q)
  IN RDiv(RMul(rf, RSub(RSub(t1, t2), t3)),
          ResponseDenominator(x, y, z, q, Hi, Ms, A, D))

fqMximag(x, y, z, Mz, Hkx, Hky, Hi, Ms, A, D) ==
  LET q == MAG_VEC(x, y, z)
      rf == reduced_field(q, Ms, Hi, A)
      t1 == RMul(RMul(RMul(Ms, Mz), RAdd(One, rf)), DMI_length(Ms, D, y))
      t2 == RMul(RMul(Hky, rf), DMI_length(Ms, D, z))
  IN RDiv(RMul(RNeg(rf), RAdd(t1, t2)),
          ResponseDenominator(x, y, z, q, Hi, Ms, A, D))

fqMyreal(x, y, z, Mz, Hkx, Hky, Hi, Ms, A, D) ==
  LET q == MAG_VEC(x, y, z)
      rf == reduced_field(q, Ms, Hi, A)
      t1 == RMul(Hky, RAdd(One, RDiv(RDiv(RMul(RMul(rf, x), x), q), q)))
      t2 == RMul(RDiv(RDiv(RMul(RMul(RMul(Ms, Mz), y), z), q), q),
                 RAdd(One, RMul(RMul(rf, DMI_length(Ms, D, q)),
                                DMI_length(Ms, D, q))))
      t3 == RDiv(RDiv(RMul(RMul(RMul(Hkx, rf), x), y), q), q)
  IN RDiv(RMul(rf, RSub(RSub(t1, t2), t3)),
          ResponseDenominator(x, y, z, q, Hi, Ms, A, D))

fqMyimag(x, y, z, Mz, Hkx, Hky, Hi, Ms, A, D) ==
  LET q == MAG_VEC(x, y, z)
      rf == reduced_field(q, Ms, Hi, A)
      t1 == RMul(RMul(RMul(Ms, Mz), RAdd(One, rf)), DMI_length(Ms, D, x))
      t2 == RMul(RMul(Hkx, rf), DMI_length(Ms, D, z))
  IN RDiv(RMul(rf, RSub(t1, t2)),
          ResponseDenominator(x, y, z, q, Hi, Ms, A, D))

(***************************************************************************)
(* External collaborators (kernel library): stand-ins with the interfaces  *)
(* the kernel calls them through.                                          *)
(***************************************************************************)
\* Gauss-Legendre table: nodes in [-1, 1] and their weights
GAUSS_Z == << <<-1, 2>>, <<0, 1>>, <<1, 2>> >>
GAUSS_W == << <<1, 2>>, One, <<1, 2>> >>
GAUSS_N == Len(GAUSS_Z)

\* SINCOS(angle, s, c) at the multiples of pi/2: <<sin, cos>>
SINCOS(angle) ==
  LET h == RDiv(angle, M_PI)
  IN CASE IsZero(h) -> <<Zero, One>>
       [] h = <<1, 2>> -> <<One, Zero>>
       [] h = One -> <<Zero, R(-1)>>
       [] h = <<3, 2>> -> <<R(-1), Zero>>
       [] h = R(2) -> <<Zero, One>>

\* core-shell sphere amplitude in its low-q limit: each region's volume
\* (without the common 4 pi / 3) times its contrast to the next region
core_shell_fq(q, radius, thickness, core_sld, shell_sld, solvent_sld) ==
  LET outer == RAdd(radius, thickness)
  IN RAdd(RMul(RMul(RMul(radius, radius), radius), RSub(core_sld, shell_sld)),
          RMul(RMul(RMul(outer, outer), outer), RSub(shell_sld, solvent_sld)))

\* rotation of the detector-plane vector into the sample frame
set_scatvec(q, cos_theta, sin_theta, alpha, beta) ==
  LET sca == SINCOS(RDiv(RMul(alpha, M_PI), R(180)))
      scb == SINCOS(RDiv(RMul(beta, M_PI), R(180)))
      sin_alpha == sca[1]
      cos_alpha == sca[2]
      sin_beta == scb[1]
      cos_beta == scb[2]
  IN << RMul(q, RMul(cos_alpha, cos_theta)),
        RMul(q, RAdd(RMul(RMul(cos_theta, sin_alpha), sin_beta),
                     RMul(cos_beta, sin_theta))),
        RMul(q, RAdd(RMul(RMul(RNeg(cos_beta), cos_theta), sin_alpha),
                     RMul(sin_beta, sin_theta))) >>

\* the weight arrays the polarization settings (up_i, up_f) can yield,
\* channel order dd.real dd.imag uu.real uu.imag du.real du.imag ud.real ud.imag
WeightFloor == <<1, 100000000>>
PolarizationWeights ==
  << << <<1, 4>>, <<1, 4>>, <<1, 4>>, <<1, 4>>, Zero, Zero, Zero, Zero >>,
     << <<1, 2>>, <<1, 2>>, <<1, 2>>, <<1, 2>>, <<1, 2>>, <<1, 2>>, <<1, 2>>, <<1, 2>> >>,
     << One, WeightFloor, Zero, <<-1, 4>>, <<1, 4>>, WeightFloor, <<-1, 4>>, One >>,
     << WeightFloor, Zero, <<-1, 4>>, WeightFloor, NaN, <<-1, 4>>, Zero, WeightFloor >> >>

set_weights(pol) == PolarizationWeights[pol]

\* component of the magnetization perpendicular to the unit scattering vector
ORTH_VEC(m, u) ==
  LET dot == RAdd(RAdd(RMul(m[1], u[1]), RMul(m[2], u[2])), RMul(m[3], u[3]))
  IN << RSub(m[1], RMul(u[1], dot)), RSub(m[2], RMul(u[2], dot)),
        RSub(m[3], RMul(u[3], dot)) >>

\* the eight polarized channel amplitudes (Halpern-Johnson vector, field along z)
mag_sld(x, y, z, mxreal, mximag, myreal, myimag, mzreal, mzimag, nucv) ==
  LET q == MAG_VEC(x, y, z)
      u == <<RDiv(x, q), RDiv(y, q), RDiv(z, q)>>
      re == ORTH_VEC(<<mxreal, myreal, mzreal>>, u)
      im == ORTH_VEC(<<mximag, myimag, mzimag>>, u)
  IN << RSub(nucv, re[3]), im[3], RAdd(nucv, re[3]), RNeg(im[3]),
        RAdd(re[2], im[1]), RSub(im[2], re[1]),
        RSub(re[2], im[1]), RAdd(im[2], re[1]) >>

(***************************************************************************)
(* Iqxy and Iq                                                             *)
(***************************************************************************)
\* fq forwards its arguments to core_shell_fq
fq(q, radius, thickness, core_sld, shell_sld, solvent_sld) ==
  core_shell_fq(q, radius, thickness, core_sld, shell_sld, solvent_sld)

\* one call of fq is one invocation of core_shell_fq, recorded under the
\* amplitude it is made for
FqInvoked(c, role) == [c EXCEPT ![role] = @ + 1]

\* the anisotropy amplitude computed once per gamma node
NodeInvocations_Once(c) == FqInvoked(c, "hk")

\* the two fq calls of a gamma node, for Hkx and for Hky
NodeInvocations(c) == FqInvoked(FqInvoked(c, "hk"), "hk")

\* the amplitudes at gamma node i0 (0-based): sld[8] after mag_sld
NodeSld(q, qr, mzv, nucv, i0, prm) ==
  LET gamma == RMul(M_PI, RAdd(GAUSS_Z[i0 + 1], One))
      sc == SINCOS(gamma)
      sin_gamma == sc[1]
      cos_gamma == sc[2]
      Hkx == RMul(fq(q, prm.radius, prm.thickness, prm.core_hk, Zero, Zero), sin_gamma)
      Hky == RMul(fq(q, prm.radius, prm.thickness, prm.core_hk, Zero, Zero), cos_gamma)
      mxreal == fqMxreal(qr[1], qr[2], qr[3], mzv, Hkx, Hky, prm.Hi, prm.Ms, prm.A, prm.D)
      mximag == fqMximag(qr[1], qr[2], qr[3], mzv, Hkx, Hky, prm.Hi, prm.Ms, prm.A, prm.D)
      myreal == fqMyreal(qr[1], qr[2], qr[3], mzv, Hkx, Hky, prm.Hi, prm.Ms, prm.A, prm.D)
      myimag == fqMyimag(qr[1], qr[2], qr[3], mzv, Hkx, Hky, prm.Hi, prm.Ms, prm.A, prm.D)
  IN mag_sld(qr[1], qr[2], qr[3], mxreal, mximag, myreal, myimag, mzv, Zero, nucv)

\* the channel loop stopping one channel early
ChannelLoopCond_Seven(x) == x < 7

\* the channel loop's condition, xs < 8
ChannelLoopCond(x) == x < 8

\* the weight test on the magnitude of the weight
WeightSignificant_Magnitude(w) ==
  RGreater(w, WeightFloor) \/ RLess(w, RNeg(WeightFloor))

\* if (weights[xs] > 1.0e-8)
WeightSignificant(w) == RGreater(w, WeightFloor)

\* one pass of the channel loop body on channel x (0-based)
ChannelBody(f, w, s, x) ==
  IF WeightSignificant(w[x + 1])
    THEN RAdd(f, RMul(RMul(w[x + 1], s[x + 1]), s[x + 1]))
    ELSE f

\* return 0.5*1.0e-4*total_F2
IqxyReturn(total) == RMul(RMul(<<1, 2>>, <<1, 10000>>), total)

\* Iq returning with Iqxy's factor
IqReturn_HalfScale(total) == RMul(RMul(<<1, 2>>, <<1, 10000>>), total)

\* return 0.25*1.0e-4*total_F1D
IqReturn(total) == RMul(RMul(<<1, 4>>, <<1, 10000>>), total)

\* the channel loop from channel x on
RECURSIVE ChannelLoop(_, _, _, _)
ChannelLoop(f, w, s, x) ==
  IF ChannelLoopCond(x) THEN ChannelLoop(ChannelBody(f, w, s, x), w, s, x + 1)
  ELSE f

\* the gamma loop from node i0 on
RECURSIVE GammaLoop(_, _, _, _, _, _, _, _)
GammaLoop(total, i0, q, qr, w, mzv, nucv, prm) ==
  IF i0 < GAUSS_N
    THEN GammaLoop(RAdd(total, RMul(GAUSS_W[i0 + 1],
                                    ChannelLoop(Zero, w, NodeSld(q, qr, mzv, nucv, i0, prm), 0))),
                   i0 + 1, q, qr, w, mzv, nucv, prm)
    ELSE total

\* q > 1.0e-16, with 1.0e-16 = 1/(10^8 * 10^8): n/d > 1/10^16 exactly when
\* n > 0 and d \div n < 10^16
ExceedsQFloor(q) ==
  IF IsNaN(q) THEN FALSE
  ELSE IF ~IsFinite(q) THEN q[1] > 0
  ELSE q[1] > 0 /\ ((q[2] \div q[1]) \div 100000000) < 100000000

\* Iqxy's value on its guarded branch (q > 1.0e-16)
IqxyGuarded(qx, qy, prm) ==
  LET q == MAG_VEC(qx, qy, Zero)
      qr == set_scatvec(q, RDiv(qx, q), RDiv(qy, q), prm.alpha, prm.beta)
      mzv == fq(q, prm.radius, prm.thickness, prm.core_Ms, prm.shell_Ms, prm.solvent_Ms)
      nucv == fq(q, prm.radius, prm.thickness, prm.core_nuc, prm.shell_nuc, prm.solvent_nuc)
  IN IqxyReturn(GammaLoop(Zero, 0, q, qr, set_weights(prm.pol), mzv, nucv, prm))

\* the values a call that ends without a return statement can hand back:
\* any double.  No statement computes the value, so it is given by the
\* sign bit and the IEEE class it falls in; every double is in exactly one.
DoubleClasses == {"zero", "subnormal", "normal", "infinite", "nan"}
UndefinedDouble == [sign : {0, 1}, class : DoubleClasses]

(***************************************************************************)
(* Inputs                                                                  *)
(***************************************************************************)
MaxMode == 3
MaxField == 2
MaxAmp == 1
MaxQ == 2

\* exchange stiffness and DMI constant.  No input has a factor 113 (the
\* denominator of M_PI) in its numerator or denominator, so a sum that holds
\* M_PI is 0 here only where it is 0 whatever the value of M_PI is.
A1 == <<1, 28400>>
D1 == <<1, 2840>>

Ints(lo, hi) == {R(n) : n \in lo..hi}

P0 == [mode |-> 0, radius |-> One, thickness |-> One, q |-> Zero,
       qx |-> Zero, qy |-> Zero, x |-> Zero, y |-> Zero, z |-> Zero,
       Mz |-> Zero, Hkx |-> Zero, Hky |-> Zero,
       core_nuc |-> Zero, shell_nuc |-> Zero, solvent_nuc |-> Zero,
       core_Ms |-> Zero, shell_Ms |-> Zero, solvent_Ms |-> Zero,
       core_hk |-> Zero, Hi |-> One, Ms |-> One, A |-> Zero, D |-> Zero,
       pol |-> 1, alpha |-> Zero, beta |-> Zero]

Idle == /\ pc = "start"
        /\ j = 0 /\ i = 0 /\ xs = 0
        /\ qrot = <<Zero, Zero, Zero>>
        /\ weights = <<>> /\ sld = <<>>
        /\ mz = Zero /\ nuc = Zero /\ form = Zero
        /\ total_F2 = Zero /\ total_F1D = Zero
        /\ result = Zero
        /\ calls = [mz |-> 0, nuc |-> 0, hk |-> 0]
        /\ iters = [theta |-> 0, gamma |-> 0, chan |-> 0]

\* rotated scattering vectors with a rational magnitude
Vectors ==
  UNION {{<<R(n), Zero, Zero>>, <<Zero, R(n), Zero>>, <<Zero, Zero, R(-n)>>} : n \in 1..MaxQ}
  \cup {<<R(3), R(4), Zero>>, <<Zero, R(3), R(-4)>>, <<R(-4), Zero, R(3)>>}

FieldsLow == {R(-1), NegZero, Zero, NaN, <<1, 1000000>>, <<1, 500000>>, <<1, 2>>}
Fields == Ints(1, MaxField)
Magnetizations == {R(-1), One, R(2)}

InitRadiusEffective ==
  /\ fn = "radius_effective"
  /\ \E m \in -1..MaxMode, r \in {Zero, One, R(50)}, t \in {Zero, One, R(10)} :
       p = [P0 EXCEPT !.mode = m, !.radius = r, !.thickness = t]

InitReducedField ==
  /\ fn = "reduced_field"
  /\ \E qv \in Ints(0, MaxQ) \cup {<<1, 10>>}, ms \in Magnetizations,
        hi \in FieldsLow \cup Fields, a \in {RNeg(A1), Zero, A1, <<1, 100>>} :
       /\ p = [P0 EXCEPT !.q = qv, !.Ms = ms, !.Hi = hi, !.A = a]

InitResponse ==
  /\ fn \in {"fqMxreal", "fqMximag", "fqMyreal", "fqMyimag"}
  /\ \E v \in Vectors, m \in Ints(-MaxAmp, MaxAmp), hx \in Ints(0, 1),
        hy \in Ints(0, 1), ms \in Magnetizations, a \in {Zero, A1},
        hi \in Fields \cup {<<1, 2>>}, d \in {Zero, D1} :
       /\ p = [P0 EXCEPT !.x = v[1], !.y = v[2], !.z = v[3], !.Mz = m,
                         !.Hkx = hx, !.Hky = hy, !.Hi = hi, !.Ms = ms,
                         !.A = a, !.D = d]

\* parameter sets of the two intensity evaluators
IntensityParams ==
  {[P0 EXCEPT !.core_nuc = One, !.core_Ms = One, !.core_hk = hk,
              !.A = a, !.D = d, !.pol = w, !.alpha = ab[1], !.beta = ab[2]] :
     hk \in Ints(0, 1), a \in {Zero, A1}, d \in {Zero, D1},
     w \in 1..Len(PolarizationWeights),
     ab \in {<<Zero, Zero>>, <<R(90), Zero>>, <<Zero, R(90)>>}}

\* detector vectors with a rational magnitude, the zero vector among them
DetectorVectors ==
  UNION {{<<R(n), Zero>>, <<Zero, R(-n)>>} : n \in 1..MaxQ}
  \cup {<<Zero, Zero>>, <<R(3), R(4)>>}

\* the inputs whose intermediate values stay within the integers of the
\* model: exchange stiffness only at magnitudes up to 1, DMI only with the
\* sample unrotated
Representable(qmag, prm) ==
  /\ prm.A = Zero \/ RLeq(qmag, One)
  /\ prm.D = Zero \/ (prm.alpha = Zero /\ prm.beta = Zero)

InitIqxy ==
  /\ fn = "Iqxy"
  /\ \E prm \in IntensityParams, v \in DetectorVectors :
       /\ Representable(MAG_VEC(v[1], v[2], Zero), prm)
       /\ (v[1] # Zero /\ v[2] # Zero) => prm.D = Zero
       /\ p = [prm EXCEPT !.qx = v[1], !.qy = v[2]]

InitIq ==
  /\ fn = "Iq"
  /\ \E prm \in IntensityParams, qv \in Ints(0, MaxQ) :
       /\ Representable(qv, prm)
       /\ p = [prm EXCEPT !.q = qv]

(***************************************************************************)
(* Calls of the pure functions                                             *)
(***************************************************************************)
Return(v) ==
  /\ result' = v
  /\ pc' = "done"
  /\ UNCHANGED <<fn, p, j, i, xs, qrot, weights, mz, nuc, sld, form,
                 total_F2, total_F1D, calls, iters>>

Call_radius_effective ==
  /\ pc = "start" /\ fn = "radius_effective"
  /\ Return(radius_effective(p.mode, p.radius, p.thickness))

Call_reduced_field ==
  /\ pc = "start" /\ fn = "reduced_field"
  /\ Return(reduced_field(p.q, p.Ms, p.Hi, p.A))

Call_fqMxreal ==
  /\ pc = "start" /\ fn = "fqMxreal"
  /\ Return(fqMxreal(p.x, p.y, p.z, p.Mz, p.Hkx, p.Hky, p.Hi, p.Ms, p.A, p.D))

Call_fqMximag ==
  /\ pc = "start" /\ fn = "fqMximag"
  /\ Return(fqMximag(p.x, p.y, p.z, p.Mz, p.Hkx, p.Hky, p.Hi, p.Ms, p.A, p.D))

Call_fqMyreal ==
  /\ pc = "start" /\ fn = "fqMyreal"
  /\ Return(fqMyreal(p.x, p.y, p.z, p.Mz, p.Hkx, p.Hky, p.Hi, p.Ms, p.A, p.D))

Call_fqMyimag ==
  /\ pc = "start" /\ fn = "fqMyimag"
  /\ Return(fqMyimag(p.x, p.y, p.z, p.Mz, p.Hkx, p.Hky, p.Hi, p.Ms, p.A, p.D))

(***************************************************************************)
(* Iqxy and Iq, statement by statement                                     *)
(***************************************************************************)
\* the magnitude the running call works with
CallQ == IF fn = "Iqxy" THEN MAG_VEC(p.qx, p.qy, Zero) ELSE p.q

\* the conditions under which each statement group runs
AtGuard == pc = "start" /\ fn = "Iqxy"
AtGuardTaken == AtGuard /\ ExceedsQFloor(CallQ)
AtGuardSkipped == AtGuard /\ ~ExceedsQFloor(CallQ)
AtIqEntry == pc = "start" /\ fn = "Iq"
AtThetaBody == pc = "theta" /\ j < GAUSS_N
AtThetaExit == pc = "theta" /\ ~(j < GAUSS_N)
AtGammaBody == pc = "gamma" /\ i < GAUSS_N
AtGammaExit == pc = "gamma" /\ ~(i < GAUSS_N)
AtChannelBody == pc = "chan" /\ ChannelLoopCond(xs)
AtChannelExit == pc = "chan" /\ ~ChannelLoopCond(xs)

\* Iqxy, q > 1.0e-16: the statements before the gamma loop
Iqxy_Enter ==
  /\ AtGuardTaken
  /\ LET q == MAG_VEC(p.qx, p.qy, Zero)
     IN /\ qrot' = set_scatvec(q, RDiv(p.qx, q), RDiv(p.qy, q), p.alpha, p.beta)
        /\ mz' = fq(q, p.radius, p.thickness, p.core_Ms, p.shell_Ms, p.solvent_Ms)
        /\ nuc' = fq(q, p.radius, p.thickness, p.core_nuc, p.shell_nuc, p.solvent_nuc)
  /\ weights' = set_weights(p.pol)
  /\ calls' = FqInvoked(FqInvoked(calls, "mz"), "nuc")
  /\ total_F2' = Zero
  /\ i' = 0
  /\ pc' = "gamma"
  /\ UNCHANGED <<fn, p, j, xs, sld, form, total_F1D, result, iters>>

\* Iqxy, q <= 1.0e-16: control reaches the closing brace of a function
\* returning double; the caller reads an unspecified value
Iqxy_FallOff ==
  /\ AtGuardSkipped
  /\ result' \in UndefinedDouble
  /\ pc' = "done"
  /\ UNCHANGED <<fn, p, j, i, xs, qrot, weights, mz, nuc, sld, form,
                 total_F2, total_F1D, calls, iters>>

\* Iq: total_F1D = 0.0 and the theta loop's initialisation
Iq_Enter ==
  /\ AtIqEntry
  /\ total_F1D' = Zero
  /\ j' = 0
  /\ pc' = "theta"
  /\ UNCHANGED <<fn, p, i, xs, qrot, weights, mz, nuc, sld, form,
                 total_F2, result, calls, iters>>

\* Iq: one theta node, the statements before its gamma loop
Iq_ThetaNode ==
  /\ AtThetaBody
  /\ LET theta == RMul(M_PI, RAdd(GAUSS_Z[j + 1], One))
         sc == SINCOS(theta)
         sin_theta == sc[1]
         cos_theta == sc[2]
     IN qrot' = set_scatvec(p.q, cos_theta, sin_theta, p.alpha, p.beta)
  /\ weights' = set_weights(p.pol)
  /\ mz' = fq(p.q, p.radius, p.thickness, p.core_Ms, p.shell_Ms, p.solvent_Ms)
  /\ nuc' = fq(p.q, p.radius, p.thickness, p.core_nuc, p.shell_nuc, p.solvent_nuc)
  /\ calls' = FqInvoked(FqInvoked(calls, "mz"), "nuc")
  /\ total_F2' = Zero
  /\ i' = 0
  /\ iters' = [iters EXCEPT !.theta = @ + 1]
  /\ pc' = "gamma"
  /\ UNCHANGED <<fn, p, j, xs, sld, form, total_F1D, result>>

\* one gamma node up to mag_sld and form = 0.0 (both evaluators)
GammaNode ==
  /\ AtGammaBody
  /\ sld' = NodeSld(CallQ, qrot, mz, nuc, i, p)
  /\ calls' = NodeInvocations(calls)
  /\ form' = Zero
  /\ xs' = 0
  /\ iters' = [iters EXCEPT !.gamma = @ + 1]
  /\ pc' = "chan"
  /\ UNCHANGED <<fn, p, j, i, qrot, weights, mz, nuc, total_F2, total_F1D, result>>

\* one iteration of the channel loop
Channel ==
  /\ AtChannelBody
  /\ form' = ChannelBody(form, weights, sld, xs)
  /\ xs' = xs + 1
  /\ iters' = [iters EXCEPT !.chan = @ + 1]
  /\ UNCHANGED <<fn, p, pc, j, i, qrot, weights, mz, nuc, sld,
                 total_F2, total_F1D, result, calls>>

\* total_F2 += GAUSS_W[i] * form, and i++
GammaAccumulate ==
  /\ AtChannelExit
  /\ total_F2' = RAdd(total_F2, RMul(GAUSS_W[i + 1], form))
  /\ i' = i + 1
  /\ pc' = "gamma"
  /\ UNCHANGED <<fn, p, j, xs, qrot, weights, mz, nuc, sld, form,
                 total_F1D, result, calls, iters>>

Iqxy_Return ==
  /\ AtGammaExit /\ fn = "Iqxy"
  /\ result' = IqxyReturn(total_F2)
  /\ pc' = "done"
  /\ UNCHANGED <<fn, p, j, i, xs, qrot, weights, mz, nuc, sld, form,
                 total_F2, total_F1D, calls, iters>>

\* total_F1D += GAUSS_W[j] * total_F2, and j++
Iq_ThetaAccumulate ==
  /\ AtGammaExit /\ fn = "Iq"
  /\ total_F1D' = RAdd(total_F1D, RMul(GAUSS_W[j + 1], total_F2))
  /\ j' = j + 1
  /\ pc' = "theta"
  /\ UNCHANGED <<fn, p, i, xs, qrot, weights, mz, nuc, sld, form,
                 total_F2, result, calls, iters>>

Iq_Return ==
  /\ AtThetaExit
  /\ result' = IqReturn(total_F1D)
  /\ pc' = "done"
  /\ UNCHANGED <<fn, p, j, i, xs, qrot, weights, mz, nuc, sld, form,
                 total_F2, total_F1D, calls, iters>>

(***************************************************************************)
(* Specifications                                                          *)
(***************************************************************************)
\* calls of Iqxy and Iq
Init == Idle /\ (InitIqxy \/ InitIq)

Next ==
  \/ Iqxy_Enter \/ Iqxy_FallOff \/ Iq_Enter \/ Iq_ThetaNode \/ GammaNode
  \/ Channel \/ GammaAccumulate \/ Iqxy_Return \/ Iq_ThetaAccumulate
  \/ Iq_Return

Spec == Init /\ [][Next]_vars

\* calls of the pure functions
FunctionInit == Idle /\ (InitRadiusEffective \/ InitReducedField \/ InitResponse)

FunctionNext ==
  \/ Call_radius_effective \/ Call_reduced_field \/ Call_fqMxreal
  \/ Call_fqMximag \/ Call_fqMyreal \/ Call_fqMyimag

FunctionSpec == FunctionInit /\ [][FunctionNext]_vars

(***************************************************************************)
(* Properties                                                              *)
(***************************************************************************)
Returned(f) == fn = f /\ pc = "done"

\* the magnitude of the rotated vector of a response call
ResponseQ == MAG_VEC(p.x, p.y, p.z)

\* the susceptibility of a response call
ResponseRf == reduced_field(ResponseQ, p.Ms, p.Hi, p.A)

\* the shared denominator of a response call
ResponseDen == ResponseDenominator(p.x, p.y, p.z, ResponseQ, p.Hi, p.Ms, p.A, p.D)

\* C1: a call of Iqxy whose detector vector has magnitude <= 1e-16 returns 0.0.
C1_ZeroVectorReturnsZero ==
  (Returned("Iqxy") /\ ~ExceedsQFloor(MAG_VEC(p.qx, p.qy, Zero)))
    => result.class = "zero"

\* C2: radius_effective returns radius when mode = 2 and radius + thickness
\* for every other mode.
C2_RadiusEffective ==
  Returned("radius_effective")
    => result = IF p.mode = 2 THEN p.radius ELSE RAdd(p.radius, p.thickness)

C2_Witness ==
  /\ Returned("radius_effective")
  /\ p.mode \notin {1, 2}
  /\ p.thickness # Zero
  /\ result = RAdd(p.radius, p.thickness)

\* the exchange term as the formula gives it: (80 pi A q^2) / Ms
ExchangeFormula(q, Ms, A) ==
  RDiv(RMul(RMul(RMul(R(80), M_PI), A), RMul(q, q)), Ms)

\* C3: for Ms # 0, reduced_field(q, Ms, Hi, A) equals
\* Ms / (max(Hi, 1e-6) + 2*A*4*pi/Ms*q^2*10), for Hi above, at and below 1e-6.
C3_ReducedFieldFloor ==
  (Returned("reduced_field") /\ p.Ms # Zero)
    => SameResult(result, RDiv(p.Ms, RAdd(RMax(p.Hi, <<1, 1000000>>),
                                         ExchangeFormula(p.q, p.Ms, p.A))))

C3_Witness ==
  /\ Returned("reduced_field")
  /\ p.Hi = R(-1)
  /\ p.A = Zero
  /\ result = RMul(R(1000000), p.Ms)

\* the pairs 0 <= Hi1 <= Hi of a reduced_field call never increase the value
MonotoneInHi ==
  \A h1 \in FieldsLow \cup Fields :
    (RLeq(Zero, h1) /\ RLeq(h1, p.Hi))
      => RLeq(result, reduced_field(p.q, p.Ms, h1, p.A))

\* C4 as stated: for every q, Ms # 0 and A, and 0 <= Hi1 <= Hi2,
\* reduced_field(q, Ms, Hi2, A) <= reduced_field(q, Ms, Hi1, A).
C4_MonotoneForAnyMs ==
  (Returned("reduced_field") /\ p.Ms # Zero) => MonotoneInHi

\* C4 amended: the same for Ms > 0 and A >= 0.
C4_MonotoneForPositiveMs ==
  (Returned("reduced_field") /\ RGreater(p.Ms, Zero) /\ RLeq(Zero, p.A))
    => MonotoneInHi

C4_Witness ==
  /\ Returned("reduced_field")
  /\ RGreater(p.Ms, Zero) /\ RGreater(p.A, Zero) /\ RGreater(p.q, Zero)
  /\ p.Hi = One
  /\ RLess(result, reduced_field(p.q, p.Ms, Zero, p.A))
  /\ RLess(result, reduced_field(p.q, p.Ms, <<1, 2>>, p.A))

ReturnedImag == (Returned("fqMximag") \/ Returned("fqMyimag"))

\* C5 as stated: with D = 0, fqMximag and fqMyimag return 0 for every
\* rotated vector with q # 0 and every Mz, Hkx, Hky, Hi, Ms # 0 and A.
C5_ImagVanishForAnyMs ==
  (ReturnedImag /\ p.D = Zero /\ ~IsZero(ResponseQ) /\ p.Ms # Zero)
    => IsZero(result)

\* C5 amended: with D = 0, fqMximag and fqMyimag return 0 whenever the
\* susceptibility is finite and the shared denominator is not zero.
C5_ImagVanish ==
  (ReturnedImag /\ p.D = Zero /\ ~IsZero(ResponseQ) /\ p.Ms # Zero
     /\ IsFinite(ResponseRf) /\ ~IsZero(ResponseDen))
    => IsZero(result)

C5_Witness ==
  /\ Returned("fqMximag")
  /\ p.D = Zero /\ p.Mz # Zero /\ p.Hky # Zero /\ p.y # Zero
  /\ RLess(p.Ms, Zero)
  /\ IsFinite(ResponseRf) /\ ~IsZero(ResponseDen)
  /\ IsZero(result)

\* sum of a finite set of doubles
RECURSIVE SumOver(_, _, _)
SumOver(S, w, s) ==
  IF S = {} THEN Zero
  ELSE LET c == CHOOSE c \in S : \A d \in S : c <= d
       IN RAdd(RMul(w[c + 1], square(s[c + 1])), SumOver(S \ {c}, w, s))

\* the weighted squares of the channels below n whose weight exceeds 1e-8
SelectedSum(w, s, n) ==
  SumOver({c \in 0..(n - 1) : RGreater(w[c + 1], <<1, 100000000>>)}, w, s)

\* sum over the gamma nodes below n of GAUSS_W times the node's value
RECURSIVE NodesSum(_)
NodesSum(n) ==
  IF n = 0 THEN Zero
  ELSE RAdd(NodesSum(n - 1),
            RMul(GAUSS_W[n], SelectedSum(weights, NodeSld(CallQ, qrot, mz, nuc, n - 1, p), 8)))

\* Iqxy at the detector vector of theta node n (1-based) of an Iq call
IqxyAtNode(n) ==
  LET sc == SINCOS(RMul(M_PI, RAdd(GAUSS_Z[n], One)))
  IN IqxyGuarded(RMul(p.q, sc[2]), RMul(p.q, sc[1]), p)

RECURSIVE IqxyAverage(_)
IqxyAverage(n) ==
  IF n = 0 THEN Zero
  ELSE RAdd(IqxyAverage(n - 1), RMul(GAUSS_W[n], IqxyAtNode(n)))

\* C6: for q > 1e-16, Iq(q, p) = 0.5 * SUM_j GAUSS_W[j] *
\* Iqxy(q*cos(theta_j), q*sin(theta_j), p) with theta_j = pi*(GAUSS_Z[j]+1).
C6_IqAveragesIqxy ==
  (Returned("Iq") /\ ExceedsQFloor(p.q))
    => SameResult(result, RMul(<<1, 2>>, IqxyAverage(GAUSS_N)))

C6_Witness ==
  /\ Returned("Iq")
  /\ ExceedsQFloor(p.q)
  /\ p.D # Zero /\ p.A # Zero /\ p.core_hk # Zero
  /\ IsFinite(result) /\ ~IsZero(result)
  /\ ~SameResult(IqxyAtNode(1), IqxyAtNode(2))

\* the stepwise Iqxy and the operator agree
IqxyAgrees ==
  (Returned("Iqxy") /\ ExceedsQFloor(CallQ)) =>
    SameResult(result, IqxyGuarded(p.qx, p.qy, p))

\* a call that runs the quadrature: Iq always, Iqxy above the q floor
RunsQuadrature == fn = "Iq" \/ (fn = "Iqxy" /\ ExceedsQFloor(CallQ))

\* C8 as stated: a call of Iq or of Iqxy (q > 1e-16) invokes core_shell_fq
\* exactly three times, once per amplitude.
C8_ThreeInvocations ==
  (pc = "done" /\ RunsQuadrature) => calls = [mz |-> 1, nuc |-> 1, hk |-> 1]

\* C8 amended: Iqxy (q > 1e-16) invokes core_shell_fq once for the
\* longitudinal amplitude, once for the nuclear amplitude and twice per gamma
\* node for the anisotropy amplitude; Iq does so at each of its theta nodes.
C8_InvocationCounts ==
  (pc = "done" /\ RunsQuadrature)
    => calls = IF fn = "Iqxy"
                 THEN [mz |-> 1, nuc |-> 1, hk |-> 2 * GAUSS_N]
                 ELSE [mz |-> GAUSS_N, nuc |-> GAUSS_N, hk |-> 2 * GAUSS_N * GAUSS_N]

C8_Witness ==
  /\ Returned("Iq")
  /\ calls.hk = 2 * GAUSS_N * GAUSS_N
  /\ calls.mz = GAUSS_N

\* the iteration counts of a finished call that ran the quadrature
FullCounts ==
  iters = IF fn = "Iqxy"
            THEN [theta |-> 0, gamma |-> GAUSS_N, chan |-> 8 * GAUSS_N]
            ELSE [theta |-> GAUSS_N, gamma |-> GAUSS_N * GAUSS_N,
                  chan |-> 8 * GAUSS_N * GAUSS_N]

\* C9 as stated: every call of Iqxy runs GAUSS_N gamma iterations and every
\* call of Iq GAUSS_N theta iterations of GAUSS_N gamma iterations, with 8
\* channel iterations per gamma node, whatever the inputs.
C9_CountsForAnyInput == pc = "done" => FullCounts

\* steps of one gamma node: GammaNode, the channel iterations, GammaAccumulate
NodeSteps == 8 + 2

\* steps of one theta node: Iq_ThetaNode, its gamma nodes, Iq_ThetaAccumulate
ThetaSteps == GAUSS_N * NodeSteps + 2

\* some statement group of the evaluators can run
CanStep ==
  \/ AtGuardTaken \/ AtGuardSkipped \/ AtIqEntry \/ AtThetaBody \/ AtThetaExit
  \/ AtGammaBody \/ AtGammaExit \/ AtChannelBody \/ AtChannelExit

\* an upper bound on the steps the running call still takes
Rank ==
  LET gammaLeft == (GAUSS_N - i) * NodeSteps + 1
      chanLeft == (9 - xs) + (GAUSS_N - i - 1) * NodeSteps + 1
      thetaLeft == IF fn = "Iq" THEN (GAUSS_N - j - 1) * ThetaSteps + 1 ELSE 0
  IN CASE pc = "start" -> GAUSS_N * ThetaSteps + 2
       [] pc = "theta" -> (GAUSS_N - j) * ThetaSteps + 1
       [] pc = "gamma" -> gammaLeft + thetaLeft
       [] pc = "chan" -> chanLeft + thetaLeft
       [] pc = "done" -> 0

\* C9 amended: every call terminates (a call that has not returned can take
\* a step, and every step lowers a non-negative bound on the steps left); the
\* counts are those for every call of Iq and every call of Iqxy with
\* q > 1e-16, and a call of Iqxy with q <= 1e-16 runs no iteration.
C9_TerminatesWithCounts ==
  /\ [](pc = "done" \/ CanStep)
  /\ [](Rank >= 0)
  /\ [][Rank' < Rank]_vars
  /\ [](pc = "done" =>
          IF RunsQuadrature THEN FullCounts
          ELSE iters = [theta |-> 0, gamma |-> 0, chan |-> 0])

C9_Witness ==
  /\ Returned("Iqxy")
  /\ ExceedsQFloor(CallQ)
  /\ p.D # Zero /\ p.pol = 4
  /\ iters.gamma = GAUSS_N /\ iters.chan = 8 * GAUSS_N

\* C10: at every gamma node the form value is the sum of weights[xs]*sld[xs]^2
\* over the channels with weights[xs] > 1e-8, channels with a weight <= 1e-8
\* adding nothing, and the node adds GAUSS_W[i]*form to the running total.
C10_FormAndTotal ==
  /\ pc = "chan" => SameResult(form, SelectedSum(weights, sld, xs))
  /\ pc = "gamma" => SameResult(total_F2, NodesSum(i))

C10_Witness ==
  /\ pc = "gamma" /\ i = GAUSS_N
  /\ ~IsZero(total_F2) /\ IsFinite(total_F2)
  /\ \E a, b, c \in 1..8 :
       /\ weights[a] = <<1, 100000000>> /\ ~IsZero(sld[a])
       /\ RLess(weights[b], Zero) /\ ~IsZero(sld[b])
       /\ weights[c] = Zero /\ ~IsZero(sld[c])

\* the value the returned response function has at Mz = 0
ResponseAtZeroMz ==
  CASE fn = "fqMxreal" -> fqMxreal(p.x, p.y, p.z, Zero, p.Hkx, p.Hky, p.Hi, p.Ms, p.A, p.D)
    [] fn = "fqMximag" -> fqMximag(p.x, p.y, p.z, Zero, p.Hkx, p.Hky, p.Hi, p.Ms, p.A, p.D)
    [] fn = "fqMyreal" -> fqMyreal(p.x, p.y, p.z, Zero, p.Hkx, p.Hky, p.Hi, p.Ms, p.A, p.D)
    [] fn = "fqMyimag" -> fqMyimag(p.x, p.y, p.z, Zero, p.Hkx, p.Hky, p.Hi, p.Ms, p.A, p.D)

\* the part of the returned value that is proportional to Ms*Mz
CouplingTerm == RSub(result, ResponseAtZeroMz)

\* the Ms*Mz term of the returned function before its scaling factor:
\* susceptibility * Ms*Mz * (the function's geometric factor) / denominator
UnscaledCoupling ==
  LET q2 == RMul(ResponseQ, ResponseQ)
      geom == CASE fn = "fqMxreal" -> RNeg(RDiv(RMul(p.x, p.z), q2))
                [] fn = "fqMyreal" -> RNeg(RDiv(RMul(p.y, p.z), q2))
                [] fn = "fqMximag" -> RNeg(DMI_length(p.Ms, p.D, p.y))
                [] fn = "fqMyimag" -> DMI_length(p.Ms, p.D, p.x)
  IN RDiv(RMul(RMul(ResponseRf, RMul(p.Ms, p.Mz)), geom), ResponseDen)

\* chiralLength(q)^2
ChiralLengthSq == square(DMI_length(p.Ms, p.D, ResponseQ))

ReturnedResponse ==
  /\ pc = "done"
  /\ fn \in {"fqMxreal", "fqMximag", "fqMyreal", "fqMyimag"}
  /\ IsFinite(result) /\ IsFinite(ResponseAtZeroMz)

\* C7 as stated: in each of the four response functions the Ms*Mz term is
\* scaled by 1 + susceptibility^2 * chiralLength(q)^2.
C7_CouplingSquaredSusceptibility ==
  ReturnedResponse
    => SameResult(CouplingTerm,
                 RMul(UnscaledCoupling,
                      RAdd(One, RMul(square(ResponseRf), ChiralLengthSq))))

\* C7 amended: in fqMxreal and fqMyreal the Ms*Mz term is scaled by
\* 1 + susceptibility * chiralLength(q)^2, in fqMximag and fqMyimag by
\* 1 + susceptibility.
C7_CouplingFactor ==
  ReturnedResponse
    => SameResult(CouplingTerm,
                 RMul(UnscaledCoupling,
                      IF fn \in {"fqMxreal", "fqMyreal"}
                        THEN RAdd(One, RMul(ResponseRf, ChiralLengthSq))
                        ELSE RAdd(One, ResponseRf)))

C7_Witness ==
  /\ ReturnedResponse
  /\ fn = "fqMxreal"
  /\ p.D # Zero /\ p.Mz # Zero /\ p.x # Zero /\ p.z # Zero
  /\ ResponseRf # One
  /\ ~IsZero(CouplingTerm)

====
